---- MODULE Spec2Model ----
(***************************************************************************)
(* google-cloud-dataproc/synth.py: the synthesis manifest of the Dataproc  *)
(* Ruby client.  The script copies generated trees into the library and    *)
(* patches them with regular-expression replacements, one of which calls   *)
(* escape_braces on every matching comment line.                           *)
(*                                                                         *)
(* Text is a sequence of atoms.  An atom is one character ("#", "{", "}",   *)
(* "\n", ...) or one lexeme that no pattern of the manifest splits         *)
(* ("WorkflowTemplate", ".new", ...).  Patterns are sequences of atoms and *)
(* atom classes, matched the way Python's re matches them.                 *)
(***************************************************************************)
EXTENDS Integers, Sequences, FiniteSets, TLC

VARIABLES
  \* escape_braces on one comment line
  line, content, rest, orig, passes, epc,
  \* the generated trees, which the script only reads
  v1_library, v1beta2, templates,
  \* the working tree and the run of the manifest over it
  tree, origin, pc, outcome, run, applied, targeted, patched, previous

escVars == <<line, content, rest, orig, passes, epc>>

genVars == <<v1_library, v1beta2, templates>>

runVars == <<tree, origin, pc, outcome, run, applied, targeted, patched, previous>>

vars == <<escVars, genVars, runVars>>

(***************************************************************************)
(* Bounds of the model.                                                    *)
(***************************************************************************)
MaxTokens == 4

\* How many times the manifest is run over the same working tree.
MaxRuns == 2

(***************************************************************************)
(* Atom classes of the two regular expressions of escape_braces.           *)
(***************************************************************************)
\* The backtick character.
Tick == "tick"

NL == "\n"

BS == "\\"

\* \s : whitespace
IsSpace(a) == a \in {" ", NL}

\* [\w,] : the characters of the identifier of a placeholder
IsIdent(a) == a \in {"a", "b", ",", "WorkflowTemplate", "AutoscalingPolicy", "Service", "X"}

\* Group 3 that also refuses a space (a faulty variant of InnerPrev).
InnerPrevNoSpace(a) == a \notin {Tick, "#", "$", BS, " "}

\* [^tick #\$\\] : group 3 of the inner expression
InnerPrev(a) == a \notin {Tick, "#", "$", BS}

\* [^\n#\$\\] : the character before the brace in the outer expression
OuterPrev(a) == a \notin {NL, "#", "$", BS}

Max(S) == CHOOSE x \in S : \A y \in S : y <= x

Min(S) == CHOOSE x \in S : \A y \in S : x <= y

\* [^tick]* : a run without a backtick
NoTick(s) == \A i \in 1..Len(s) : s[i] # Tick

\* (tick [^tick]*tick [^tick]*)* : pairs of backticks, each followed by a run without one
RECURSIVE TickPairs(_)
TickPairs(s) ==
  \/ s = <<>>
  \/ /\ Len(s) >= 2
     /\ s[1] = Tick
     /\ \E i \in 2..Len(s) :
          /\ s[i] = Tick
          /\ NoTick(SubSeq(s, 2, i - 1))
          /\ \E j \in i..Len(s) :
               /\ NoTick(SubSeq(s, i + 1, j))
               /\ TickPairs(SubSeq(s, j + 1, Len(s)))

\* A group 1 that accepts any prefix, .* (a faulty variant of Group1).
Group1Any(s) == Len(s) >= 0

\* group 1 of the inner expression: [^tick]*(tick [^tick]*tick [^tick]*)*
Group1(s) ==
  \E k \in 0..Len(s) :
    /\ NoTick(SubSeq(s, 1, k))
    /\ TickPairs(SubSeq(s, k + 1, Len(s)))

\* \{([\w,]+)\} at index i: the index of the closing brace, 0 when there is none
RECURSIVE IdentRun(_, _)
IdentRun(s, i) ==
  IF i <= Len(s) /\ IsIdent(s[i]) THEN IdentRun(s, i + 1) ELSE i

BraceEnd(s, i) ==
  IF i <= Len(s) /\ s[i] = "{"
  THEN LET e == IdentRun(s, i + 1)
       IN  IF e > i + 1 /\ e <= Len(s) /\ s[e] = "}" THEN e ELSE 0
  ELSE 0

\* The brace positions at which ^(group1)(group3)\{(group4)\} can match.
InnerMatches(s) ==
  { i \in 2..Len(s) :
      /\ BraceEnd(s, i) > 0
      /\ InnerPrev(s[i - 1])
      /\ Group1(SubSeq(s, 1, i - 2)) }

\* A template that puts a slash in front of the brace (a faulty variant of InnerEscape).
InnerEscapeSlash == <<"/">>

\* The template \1\3\\\\{\4}: two backslashes go in front of the brace.
InnerEscape == <<BS, BS>>

InsertAt(s, i, ins) == SubSeq(s, 1, i - 1) \o ins \o SubSeq(s, i, Len(s))

\* expr.subn(template, content): the expression is anchored with ^ and is not
\* MULTILINE, so one call rewrites one match at most; group 1 is greedy, so the
\* match the backtracking finds first is the one with the longest group 1.
InnerSubn(s) ==
  IF InnerMatches(s) = {}
  THEN [content |-> s, count |-> 0]
  ELSE [content |-> InsertAt(s, Max(InnerMatches(s)), InnerEscape), count |-> 1]

\* escape_braces(match): substitute until a pass rewrites nothing.
RECURSIVE escape_braces(_)
escape_braces(s) ==
  LET r == InnerSubn(s)
  IN  IF r.count = 0 THEN r.content ELSE escape_braces(r.content)

(***************************************************************************)
(* The outer expression \n(\s+)#[^\n]*[^\n#\$\\]\{[\w,]+\} (MULTILINE).    *)
(***************************************************************************)
RECURSIVE SpaceRun(_, _)
SpaceRun(s, i) ==
  IF i <= Len(s) /\ IsSpace(s[i]) THEN SpaceRun(s, i + 1) ELSE i

RECURSIVE LineEnd(_, _)
LineEnd(s, i) ==
  IF i <= Len(s) /\ s[i] # NL THEN LineEnd(s, i + 1) ELSE i

\* The end of the match that starts at index i, 0 when none starts there:
\* [^\n]* is greedy, so the match ends at the last placeholder of the line
\* whose preceding character is allowed.
OuterEnd(s, i) ==
  IF i <= Len(s) /\ s[i] = NL
  THEN LET h == SpaceRun(s, i + 1)
       IN  IF h > i + 1 /\ h <= Len(s) /\ s[h] = "#"
           THEN LET eol == LineEnd(s, h + 1)
                    ends == { BraceEnd(s, b) : b \in { c \in (h + 2)..(eol - 1) :
                                BraceEnd(s, c) > 0 /\ OuterPrev(s[c - 1]) } }
                IN  IF ends = {} THEN 0 ELSE Max(ends)
           ELSE 0
  ELSE 0

OuterStarts(s, from) == { i \in from..Len(s) : OuterEnd(s, i) > 0 }

\* s.replace(files, outer, escape_braces) on one file's text: every
\* non-overlapping match, left to right, is replaced by the callback's result.
RECURSIVE ReplaceEscape(_, _)
ReplaceEscape(s, from) ==
  IF OuterStarts(s, from) = {}
  THEN SubSeq(s, from, Len(s))
  ELSE LET i == Min(OuterStarts(s, from))
           e == OuterEnd(s, i)
       IN  SubSeq(s, from, i - 1) \o escape_braces(SubSeq(s, i, e))
             \o ReplaceEscape(s, e + 1)

(***************************************************************************)
(* escape_braces as a process: one step per pass of its while loop.        *)
(***************************************************************************)
BodyTokens ==
  { <<Tick>>, <<"#">>, <<"$">>, <<BS>>, <<" ">>, <<"{">>, <<"{", "a", "}">>,
    <<Tick, "{", "a", ",", "b", "}", Tick>> }

RECURSIVE Flatten(_)
Flatten(ts) == IF ts = <<>> THEN <<>> ELSE Head(ts) \o Flatten(Tail(ts))

\* A comment line of a Ruby file: newline, indentation, "#", then the body.
CommentLines ==
  { <<NL, " ", "#">> \o Flatten(ts) :
      ts \in UNION { [1..n -> BodyTokens] : n \in 0..MaxTokens } }

EscInit ==
  /\ line \in CommentLines
  /\ content = <<>>
  /\ rest = <<>>
  /\ orig = <<>>
  /\ passes = 0
  /\ epc = "idle"
  /\ v1_library = <<>> /\ v1beta2 = <<>> /\ templates = <<>>
  /\ tree = <<>> /\ origin = <<>> /\ previous = <<>>
  /\ pc = 0 /\ outcome = "none" /\ run = 0
  /\ applied = <<>> /\ targeted = {} /\ patched = {}

\* The Replace finds the outer expression in the line and calls escape_braces
\* with the match: content = match.group(0).
EscCall ==
  /\ epc = "idle"
  /\ OuterEnd(line, 1) > 0
  /\ content' = SubSeq(line, 1, OuterEnd(line, 1))
  /\ rest' = SubSeq(line, OuterEnd(line, 1) + 1, Len(line))
  /\ orig' = SubSeq(line, 1, OuterEnd(line, 1))
  /\ passes' = 0
  /\ epc' = "loop"
  /\ UNCHANGED line
  /\ UNCHANGED <<genVars, runVars>>

\* The outer expression does not match: the line is not handed over.
EscSkip ==
  /\ epc = "idle"
  /\ OuterEnd(line, 1) = 0
  /\ epc' = "skipped"
  /\ UNCHANGED <<line, content, rest, orig, passes>>
  /\ UNCHANGED <<genVars, runVars>>

\* A pass that rewrites: content, count = expr.subn(...), count > 0.
EscRewrite ==
  /\ epc = "loop"
  /\ InnerSubn(content).count > 0
  /\ content' = InnerSubn(content).content
  /\ passes' = passes + 1
  /\ UNCHANGED <<line, rest, orig, epc>>
  /\ UNCHANGED <<genVars, runVars>>

\* The pass that rewrites nothing: count == 0, return content.
EscReturn ==
  /\ epc = "loop"
  /\ InnerSubn(content).count = 0
  /\ passes' = passes + 1
  /\ epc' = "returned"
  /\ UNCHANGED <<line, content, rest, orig>>
  /\ UNCHANGED <<genVars, runVars>>

EscNext == EscCall \/ EscSkip \/ EscRewrite \/ EscReturn

SpecEscape == EscInit /\ [][EscNext]_vars

(***************************************************************************)
(* Paths and globs.  A path is a sequence of segments and a segment a      *)
(* sequence of name atoms, so that v*.rb and *_client.rb are matched, not  *)
(* looked up.                                                              *)
(***************************************************************************)
\* A segment against a segment pattern; "*" stands for any run of atoms.
RECURSIVE SegMatch(_, _)
SegMatch(pat, seg) ==
  IF pat = <<>> THEN seg = <<>>
  ELSE IF Head(pat) = "*"
       THEN \E k \in 0..Len(seg) : SegMatch(Tail(pat), SubSeq(seg, k + 1, Len(seg)))
       ELSE seg # <<>> /\ Head(seg) = Head(pat) /\ SegMatch(Tail(pat), Tail(seg))

\* A path against a glob; the segment ** stands for any run of directories.
RECURSIVE PathMatch(_, _)
PathMatch(glob, path) ==
  IF glob = <<>> THEN path = <<>>
  ELSE IF Head(glob) = <<"**">>
       THEN \E k \in 0..Len(path) : PathMatch(Tail(glob), SubSeq(path, k + 1, Len(path)))
       ELSE path # <<>> /\ SegMatch(Head(glob), Head(path))
              /\ PathMatch(Tail(glob), Tail(path))

\* A copy's source: the file itself or everything below the directory.
HasPrefix(path, sub) ==
  Len(sub) <= Len(path) /\ SubSeq(path, 1, Len(sub)) = sub

D_v1 == <<"v", "1">>

D_v1beta2 == <<"v", "1beta2">>

LibDataproc == <<<<"lib">>, <<"google">>, <<"cloud">>, <<"dataproc">>>>

TestDataproc == <<<<"test">>, <<"google">>, <<"cloud">>, <<"dataproc">>>>

AccDataproc == <<<<"acceptance">>, <<"google">>, <<"cloud">>, <<"dataproc">>>>

P_dataproc_rb == <<<<"lib">>, <<"google">>, <<"cloud">>, <<"dataproc", ".rb">>>>

P_v1_rb == Append(LibDataproc, <<"v", "1", ".rb">>)

P_v1beta2_rb == Append(LibDataproc, <<"v", "1beta2", ".rb">>)

\* Hand-maintained: no generator writes it, yet v*.rb and lib/**/*.rb match it.
P_version_rb == Append(LibDataproc, <<"v", "ersion", ".rb">>)

F_wt_client == <<"workflow_template_service", "_client", ".rb">>

F_wt_test == <<"workflow_template_service", "_client", "_test", ".rb">>

F_as_client == <<"autoscaling_policy_service", "_client", ".rb">>

F_as_test == <<"autoscaling_policy_service", "_client", "_test", ".rb">>

F_cc_client == <<"cluster_controller", "_client", ".rb">>

P_v1_wt_client == LibDataproc \o <<D_v1, F_wt_client>>

P_v1_cc_client == LibDataproc \o <<D_v1, F_cc_client>>

P_v1beta2_wt_client == LibDataproc \o <<D_v1beta2, F_wt_client>>

P_v1beta2_as_client == LibDataproc \o <<D_v1beta2, F_as_client>>

P_v1_wt_test == TestDataproc \o <<D_v1, F_wt_test>>

P_v1beta2_wt_test == TestDataproc \o <<D_v1beta2, F_wt_test>>

P_v1beta2_as_test == TestDataproc \o <<D_v1beta2, F_as_test>>

P_v1_acc == AccDataproc \o <<D_v1, <<"smoke_test", ".rb">>>>

P_v1beta2_acc == AccDataproc \o <<D_v1beta2, <<"smoke_test", ".rb">>>>

P_readme == <<<<"README", ".md">>>>

P_license == <<<<"LICENSE">>>>

P_gitignore == <<<<".gitignore">>>>

P_yardopts == <<<<".yardopts">>>>

P_gemspec == <<<<"google-cloud-dataproc", ".gemspec">>>>

P_authentication == <<<<"AUTHENTICATION", ".md">>>>

Paths ==
  { P_dataproc_rb, P_v1_rb, P_v1beta2_rb, P_version_rb, P_v1_wt_client,
    P_v1_cc_client, P_v1beta2_wt_client, P_v1beta2_as_client, P_v1_wt_test,
    P_v1beta2_wt_test, P_v1beta2_as_test, P_v1_acc, P_v1beta2_acc, P_readme, P_license,
    P_gitignore, P_yardopts, P_gemspec, P_authentication }

\* The content of a path that holds no file.
NoFile == <<"<no file>">>

(***************************************************************************)
(* Patterns.  An element is a class of atoms with a quantifier; a class    *)
(* and the element after it are disjoint in every pattern of the manifest, *)
(* so the greedy run is the match.                                         *)
(***************************************************************************)
Lit(a) == [neg |-> FALSE, set |-> {a}, q |-> "1"]

One(S) == [neg |-> FALSE, set |-> S, q |-> "1"]

Plus(S) == [neg |-> FALSE, set |-> S, q |-> "+"]

StarNot(S) == [neg |-> TRUE, set |-> S, q |-> "*"]

Lits(as) == [i \in 1..Len(as) |-> Lit(as[i])]

\* \s+
Spaces == Plus({" ", NL})

InClass(el, a) == (a \in el.set) # el.neg

RECURSIVE ClassRun(_, _, _)
ClassRun(el, s, i) ==
  IF i <= Len(s) /\ InClass(el, s[i]) THEN ClassRun(el, s, i + 1) ELSE i

\* Where element el ends when it starts at i; 0 when it does not match.
ElemEnd(el, s, i) ==
  IF el.q = "1"
  THEN IF i <= Len(s) /\ InClass(el, s[i]) THEN i + 1 ELSE 0
  ELSE LET r == ClassRun(el, s, i)
       IN  IF el.q = "+" /\ r = i THEN 0 ELSE r

\* The boundaries of the elements of pat matched at b[1], <<>> when no match.
RECURSIVE MatchBounds(_, _, _, _)
MatchBounds(pat, k, s, b) ==
  IF k > Len(pat) THEN b
  ELSE LET e == ElemEnd(pat[k], s, b[Len(b)])
       IN  IF e = 0 THEN <<>> ELSE MatchBounds(pat, k + 1, s, Append(b, e))

MatchAt(pat, s, i) == MatchBounds(pat, 1, s, <<i>>)

MatchStarts(pat, s, from) == { i \in from..Len(s) : MatchAt(pat, s, i) # <<>> }

\* re.search: the pattern occurs in the text.
Occurs(pat, s) == MatchStarts(pat, s, 1) # {}

BackRefs == {"\\1", "\\2", "\\3"}

GroupNo(item) == IF item = "\\1" THEN 1 ELSE IF item = "\\2" THEN 2 ELSE 3

\* The replacement template with its back-references filled in.
RECURSIVE Expand(_, _, _, _)
Expand(tmpl, groups, s, b) ==
  IF tmpl = <<>> THEN <<>>
  ELSE IF Len(tmpl) = 1
  THEN IF tmpl[1] \in BackRefs
       THEN LET g == groups[GroupNo(tmpl[1])]
            IN  SubSeq(s, b[g[1]], b[g[2] + 1] - 1)
       ELSE tmpl
  ELSE LET h == Len(tmpl) \div 2
       IN  Expand(SubSeq(tmpl, 1, h), groups, s, b)
             \o Expand(SubSeq(tmpl, h + 1, Len(tmpl)), groups, s, b)

\* expr.subn(replacement, content): every non-overlapping match, left to right.
RECURSIVE Subn(_, _)
Subn(op, t) ==
  IF MatchStarts(op.match, t.s, t.from) = {}
  THEN SubSeq(t.s, t.from, Len(t.s))
  ELSE LET i == Min(MatchStarts(op.match, t.s, t.from))
           b == MatchAt(op.match, t.s, i)
       IN  SubSeq(t.s, t.from, i - 1) \o Expand(op.repl, op.groups, t.s, b)
             \o Subn(op, [s |-> t.s, from |-> b[Len(b)]])

(***************************************************************************)
(* The licence header expression, anchored at the start of the file.       *)
(***************************************************************************)
\* \A(((#[^\n]*)?\n)*# (Copyright \d+|Generated by ...)[^\n]+\n(#[^\n]*\n)*\n)([^\n])
\* ((#[^\n]*)?\n)* : the line starts reachable from the start of the file over
\* blank lines and comment lines.
RECURSIVE HeaderStarts(_, _)
HeaderStarts(s, i) ==
  LET eol == LineEnd(s, i)
  IN  IF i <= Len(s) /\ eol <= Len(s) /\ (eol = i \/ s[i] = "#")
      THEN {i} \cup HeaderStarts(s, eol + 1)
      ELSE {i}

\* (#[^\n]*\n)* : past every comment line that follows.
RECURSIVE CommentsEnd(_, _)
CommentsEnd(s, i) ==
  IF i <= Len(s) /\ s[i] = "#" /\ LineEnd(s, i) <= Len(s)
  THEN CommentsEnd(s, LineEnd(s, i) + 1)
  ELSE i

\* The index of group 6 when the copyright line starts at p, 0 when no match.
HeaderGroup6(s, p) ==
  IF /\ p + 3 <= Len(s)
     /\ s[p] = "#" /\ s[p + 1] = " "
     /\ s[p + 2] \in {"Copyright 2019", "Generated by the protocol buffer compiler"}
     /\ s[p + 3] # NL
     /\ LineEnd(s, p) <= Len(s)
  THEN LET c == CommentsEnd(s, LineEnd(s, p) + 1)
       IN  IF c + 1 <= Len(s) /\ s[c] = NL /\ s[c + 1] # NL THEN c + 1 ELSE 0
  ELSE 0

\* The template \1\n\6: one more blank line after the header.  The first
\* group is greedy, so the last copyright line that matches is the one used.
HeaderSubn(s) ==
  LET ps == { p \in HeaderStarts(s, 1) : HeaderGroup6(s, p) > 0 }
  IN  IF ps = {} THEN s ELSE InsertAt(s, HeaderGroup6(s, Max(ps)), <<NL>>)

(***************************************************************************)
(* The manifest: the operations of synth.py, top to bottom.                *)
(***************************************************************************)
CopyOp(library, sub, merge) ==
  [kind |-> "copy", src |-> library, sub |-> sub, merge |-> merge]

\* A Replace whose match is a pattern and whose replacement is a template.
ReplaceOp(files, match, groups, repl, literal) ==
  [kind |-> "replace", how |-> "pattern", files |-> files, match |-> match,
   groups |-> groups, repl |-> repl, literal |-> literal]

\* A Replace whose matching needs more than a sequence of classes.
SpecialOp(files, how) ==
  [kind |-> "replace", how |-> how, files |-> files, match |-> <<>>,
   groups |-> <<>>, repl |-> <<>>, literal |-> FALSE]

G_dataproc_rb == P_dataproc_rb

G_versions_rb == Append(LibDataproc, <<"v", "*", ".rb">>)

G_clients == LibDataproc \o <<<<"v", "*">>, <<"*", "_client", ".rb">>>>

G_lib_cloud_rb == <<<<"lib">>, <<"google">>, <<"cloud">>, <<"**">>, <<"*", ".rb">>>>

G_lib_rb == <<<<"lib">>, <<"**">>, <<"*", ".rb">>>>

G_any_clients == LibDataproc \o <<<<"*">>, <<"*", "_client", ".rb">>>>

Op_copy_v1_acceptance == CopyOp("v1", <<<<"acceptance">>>>, FALSE)

Op_copy_v1_lib == CopyOp("v1", <<<<"lib">>>>, FALSE)

Op_copy_v1_test == CopyOp("v1", <<<<"test">>>>, FALSE)

Op_copy_v1_readme == CopyOp("v1", P_readme, FALSE)

Op_copy_v1_license == CopyOp("v1", P_license, FALSE)

Op_copy_v1_gitignore == CopyOp("v1", P_gitignore, FALSE)

\* A copy of .yardopts with the path misspelt, which copies nothing
\* (a faulty variant of Op_copy_v1_yardopts).
Op_copy_v1_yardopts_typo == CopyOp("v1", <<<<".yardopt">>>>, FALSE)

Op_copy_v1_yardopts == CopyOp("v1", P_yardopts, FALSE)

Op_copy_v1_gemspec == CopyOp("v1", P_gemspec, TRUE)

Op_copy_v1beta2_lib == CopyOp("v1beta2", Append(LibDataproc, D_v1beta2), FALSE)

Op_copy_v1beta2_rb == CopyOp("v1beta2", P_v1beta2_rb, FALSE)

Op_copy_v1beta2_acceptance == CopyOp("v1beta2", Append(AccDataproc, D_v1beta2), FALSE)

Op_copy_v1beta2_test == CopyOp("v1beta2", Append(TestDataproc, D_v1beta2), FALSE)

\* dataproc.rb taken from the v1 library instead (a faulty variant of
\* Op_copy_v1beta2_dataproc_rb).
Op_copy_v1_dataproc_rb == CopyOp("v1", P_dataproc_rb, FALSE)

Op_copy_v1beta2_dataproc_rb == CopyOp("v1beta2", P_dataproc_rb, FALSE)

Op_default_version ==
  ReplaceOp({G_dataproc_rb}, Lits(<<":v1beta2">>), <<>>, <<":v1">>, TRUE)

Op_copy_templates == CopyOp("templates", <<>>, FALSE)

Doc_transformer == "@param exception_transformer"

Op_doc_service_address ==
  ReplaceOp({G_dataproc_rb, G_versions_rb, G_clients},
            <<Lit(NL), Spaces, Lit("#"), Spaces, Lit(Doc_transformer)>>,
            <<<<2, 2>>, <<4, 4>>>>,
            <<NL, "\\1", "#", "\\2", "@param service_address [String]",
              NL, "\\1", "#", "\\2",
              "  Override for the service hostname, or ", Tick, "nil", Tick,
              " to leave as the default.",
              NL, "\\1", "#", "\\2", "@param service_port [Integer]",
              NL, "\\1", "#", "\\2",
              "  Override for the service port, or ", Tick, "nil", Tick,
              " to leave as the default.",
              NL, "\\1", "#", "\\2", Doc_transformer>>,
            FALSE)

Op_arg_service_address ==
  ReplaceOp({G_versions_rb, G_clients},
            <<Lit(NL), Spaces, Lit("metadata: nil,"), Lit(NL), Spaces,
              Lit("exception_transformer: nil,"), Lit(NL)>>,
            <<<<2, 2>>>>,
            <<NL, "\\1", "metadata: nil,", NL, "\\1", "service_address: nil,", NL,
              "\\1", "service_port: nil,", NL, "\\1", "exception_transformer: nil,", NL>>,
            FALSE)

Op_kwarg_service_address ==
  ReplaceOp({G_versions_rb, G_clients},
            <<Lit(","), Lit(NL), Spaces, Lit("lib_name: lib_name,"), Lit(NL), Spaces,
              Lit("lib_version: lib_version")>>,
            <<<<3, 3>>>>,
            <<",", NL, "\\1", "lib_name: lib_name,", NL,
              "\\1", "service_address: service_address,", NL,
              "\\1", "service_port: service_port,", NL,
              "\\1", "lib_version: lib_version">>,
            FALSE)

Op_service_path ==
  ReplaceOp({G_clients},
            Lits(<<"service_path = ", "self.class::SERVICE_ADDRESS">>), <<>>,
            <<"service_path = ", "service_address || ", "self.class::SERVICE_ADDRESS">>,
            TRUE)

Op_service_port ==
  ReplaceOp({G_clients},
            Lits(<<"port = ", "self.class::DEFAULT_SERVICE_PORT">>), <<>>,
            <<"port = ", "service_port || ", "self.class::DEFAULT_SERVICE_PORT">>,
            TRUE)

Gax_dependency == "  gem.add_dependency google-gax, ~> 1."

Op_gax_dependency ==
  ReplaceOp({P_gemspec},
            <<Lit(NL), Lit(Gax_dependency), Plus({"0", "3", "7", "."}), Lit("quote"), Lit(NL)>>,
            <<>>,
            <<NL, Gax_dependency, "7", "quote", NL>>,
            FALSE)

Op_escape_braces == SpecialOp({G_lib_cloud_rb}, "escape_braces")

Op_private_stub ==
  ReplaceOp({G_any_clients},
            <<Lit(NL), Spaces, Lit("class "),
              One({ "ClusterControllerClient", "WorkflowTemplateServiceClient",
                    "AutoscalingPolicyServiceClient", "OperationsClient" }),
              Lit(NL), Spaces, One({"attr_reader :service_stub"})>>,
            <<<<1, 5>>, <<6, 6>>, <<7, 7>>>>,
            <<"\\1", "\\2", "#", " ", "@private", NL, "\\2", "\\3">>,
            FALSE)

Op_header_blank_line == SpecialOp({G_lib_rb}, "header")

Url_github_old == "https://github.com/GoogleCloudPlatform/google-cloud-ruby"

Url_io_old == "https://googlecloudplatform.github.io/google-cloud-ruby"

Op_url_github ==
  ReplaceOp({G_lib_rb, P_readme}, Lits(<<Url_github_old>>), <<>>,
            <<"https://github.com/googleapis/google-cloud-ruby">>, TRUE)

Op_url_io ==
  ReplaceOp({G_lib_rb, P_readme}, Lits(<<Url_io_old>>), <<>>,
            <<"https://googleapis.github.io/google-cloud-ruby">>, TRUE)

Rubocop_dependency == "gem.add_development_dependency rubocop"

Op_rubocop ==
  ReplaceOp({P_gemspec},
            <<Lit(Rubocop_dependency), StarNot({NL})>>, <<>>,
            <<Rubocop_dependency, ", ~> 0.64.0">>,
            FALSE)

Op_module_WorkflowTemplate ==
  ReplaceOp({G_dataproc_rb, G_versions_rb},
            Lits(<<"module ", "WorkflowTemplate", NL>>), <<>>,
            <<"module ", "WorkflowTemplate", "Service", NL>>, TRUE)

\* The call-site rename on every Ruby file of lib (a faulty variant of
\* Op_new_WorkflowTemplate).
Op_new_WorkflowTemplate_everywhere ==
  ReplaceOp({G_lib_rb, <<<<"**">>, <<"*", ".rb">>>>},
            Lits(<<"WorkflowTemplate", ".new">>), <<>>,
            <<"WorkflowTemplate", "Service", ".new">>, TRUE)

Op_new_WorkflowTemplate ==
  ReplaceOp({G_dataproc_rb},
            Lits(<<"WorkflowTemplate", ".new">>), <<>>,
            <<"WorkflowTemplate", "Service", ".new">>, TRUE)

Op_client_WorkflowTemplate ==
  ReplaceOp({LibDataproc \o <<<<"v", "*">>, F_wt_client>>,
             TestDataproc \o <<<<"v", "*">>, F_wt_test>>},
            Lits(<<"WorkflowTemplate", ".new", "(version:">>), <<>>,
            <<"WorkflowTemplate", "Service", ".new", "(version:">>, TRUE)

Op_module_AutoscalingPolicy ==
  ReplaceOp({G_dataproc_rb, G_versions_rb},
            Lits(<<"module ", "AutoscalingPolicy", NL>>), <<>>,
            <<"module ", "AutoscalingPolicy", "Service", NL>>, TRUE)

Op_new_AutoscalingPolicy ==
  ReplaceOp({G_dataproc_rb},
            Lits(<<"AutoscalingPolicy", ".new">>), <<>>,
            <<"AutoscalingPolicy", "Service", ".new">>, TRUE)

Op_client_AutoscalingPolicy ==
  ReplaceOp({LibDataproc \o <<<<"v", "*">>, F_as_client>>,
             TestDataproc \o <<<<"v", "*">>, F_as_test>>},
            Lits(<<"AutoscalingPolicy", ".new", "(version:">>), <<>>,
            <<"AutoscalingPolicy", "Service", ".new", "(version:">>, TRUE)

Operations_base == " < Google::Longrunning::OperationsClient"

Op_private_operations ==
  ReplaceOp({LibDataproc \o <<<<"v", "*">>, F_cc_client>>},
            <<Lit(NL), Lit(NL), Spaces, Lit("class "), Lit("OperationsClient"),
              Lit(Operations_base)>>,
            <<<<3, 3>>>>,
            <<NL, NL, "\\1", "#", " ", "@private", NL, "\\1", "class ",
              "OperationsClient", Operations_base>>,
            FALSE)

\* The gemspec file list with AUTHENTICATION.md added at the end, so that the
\* replacement holds the match (a faulty variant of Op_gemspec_files).
Op_gemspec_files_appended ==
  ReplaceOp({P_gemspec},
            Lits(<<"'README.md'", ", ", "'LICENSE'">>), <<>>,
            <<"'README.md'", ", ", "'LICENSE'", ", ", "'AUTHENTICATION.md'">>, TRUE)

Op_gemspec_files ==
  ReplaceOp({P_gemspec},
            Lits(<<"'README.md'", ", ", "'LICENSE'">>), <<>>,
            <<"'README.md'", ", ", "'AUTHENTICATION.md'", ", ", "'LICENSE'">>, TRUE)

Op_yardopts ==
  ReplaceOp({P_yardopts},
            Lits(<<"README.md", NL>>), <<>>,
            <<"README.md", NL, "AUTHENTICATION.md", NL, "LICENSE", NL>>, TRUE)

Op_gemspec_require ==
  ReplaceOp({P_gemspec},
            Lits(<<NL, "Gem::Specification.new do">>), <<>>,
            <<"require File.expand_path(../lib/google/cloud/dataproc/version)", NL, NL,
              "Gem::Specification.new do">>, TRUE)

QuotedVersions == {"'0.1.0'", "'0.2.2'"}

Op_gemspec_version ==
  ReplaceOp({P_gemspec},
            <<Lit("gem.version"), Spaces, Lit("="), Spaces, One(QuotedVersions),
              StarNot({NL})>>,
            <<<<1, 4>>>>,
            <<"\\1", "Google::Cloud::Dataproc::VERSION">>,
            FALSE)

Op_require_version(version) ==
  ReplaceOp({LibDataproc \o <<version, <<"*", "_client", ".rb">>>>},
            <<Lit("require "),
              One({"google/cloud/dataproc/v1/credentials",
                   "google/cloud/dataproc/v1beta2/credentials"}),
              Lit(NL), Lit(NL)>>,
            <<<<1, 3>>>>,
            <<"\\1", "require ", "google/cloud/dataproc/version", NL, NL>>,
            FALSE)

Op_loaded_version(version) ==
  ReplaceOp({LibDataproc \o <<version, <<"*", "_client", ".rb">>>>},
            <<Lit("Gem.loaded_specs["), One({"google-cloud-dataproc"}),
              Lit("].version.version")>>,
            <<>>,
            <<"Google::Cloud::Dataproc::VERSION">>,
            FALSE)

\* The manifest with the default-version Replace ahead of the copy of
\* dataproc.rb (a faulty variant of Manifest).
ManifestReplaceFirst ==
  << Op_copy_v1_acceptance, Op_copy_v1_lib, Op_copy_v1_test, Op_copy_v1_readme,
     Op_copy_v1_license, Op_copy_v1_gitignore, Op_copy_v1_yardopts,
     Op_copy_v1_gemspec,
     Op_copy_v1beta2_lib, Op_copy_v1beta2_rb, Op_copy_v1beta2_acceptance,
     Op_copy_v1beta2_test, Op_default_version, Op_copy_v1beta2_dataproc_rb,
     Op_copy_templates,
     Op_doc_service_address, Op_arg_service_address, Op_kwarg_service_address,
     Op_service_path, Op_service_port, Op_gax_dependency, Op_escape_braces,
     Op_private_stub, Op_header_blank_line, Op_url_github, Op_url_io, Op_rubocop,
     Op_module_WorkflowTemplate, Op_new_WorkflowTemplate, Op_client_WorkflowTemplate,
     Op_module_AutoscalingPolicy, Op_new_AutoscalingPolicy,
     Op_client_AutoscalingPolicy, Op_private_operations, Op_gemspec_files,
     Op_yardopts, Op_gemspec_require, Op_gemspec_version,
     Op_require_version(D_v1), Op_loaded_version(D_v1),
     Op_require_version(D_v1beta2), Op_loaded_version(D_v1beta2) >>

Manifest ==
  << Op_copy_v1_acceptance, Op_copy_v1_lib, Op_copy_v1_test, Op_copy_v1_readme,
     Op_copy_v1_license, Op_copy_v1_gitignore, Op_copy_v1_yardopts,
     Op_copy_v1_gemspec,
     Op_copy_v1beta2_lib, Op_copy_v1beta2_rb, Op_copy_v1beta2_acceptance,
     Op_copy_v1beta2_test, Op_copy_v1beta2_dataproc_rb, Op_default_version,
     Op_copy_templates,
     Op_doc_service_address, Op_arg_service_address, Op_kwarg_service_address,
     Op_service_path, Op_service_port, Op_gax_dependency, Op_escape_braces,
     Op_private_stub, Op_header_blank_line, Op_url_github, Op_url_io, Op_rubocop,
     Op_module_WorkflowTemplate, Op_new_WorkflowTemplate, Op_client_WorkflowTemplate,
     Op_module_AutoscalingPolicy, Op_new_AutoscalingPolicy,
     Op_client_AutoscalingPolicy, Op_private_operations, Op_gemspec_files,
     Op_yardopts, Op_gemspec_require, Op_gemspec_version,
     Op_require_version(D_v1), Op_loaded_version(D_v1),
     Op_require_version(D_v1beta2), Op_loaded_version(D_v1beta2) >>

NOps == Len(Manifest)

\* The position of an operation in the manifest.
IndexOf(op) == CHOOSE k \in 1..NOps : Manifest[k] = op

(***************************************************************************)
(* The texts of the generated files: the lines the patches look for.       *)
(***************************************************************************)
Header ==
  <<"#", " ", "Copyright 2019", " Google LLC", NL, "#", " ", "Licensed", NL, NL>>

DocLine == <<" ", "#", " ", Doc_transformer, NL>>

Args == <<" ", "metadata: nil,", NL, " ", "exception_transformer: nil,", NL>>

Kwargs ==
  <<"kwargs = {", ",", NL, " ", "lib_name: lib_name,", NL, " ",
    "lib_version: lib_version", NL>>

Factory(name) ==
  <<"module ", name, NL>> \o DocLine \o <<"version_module::", name, ".new", NL>>

\* dataproc.rb of the v1 library: v1 is its default version.
Text_dataproc_v1 ==
  Header \o Factory("WorkflowTemplate") \o <<"version: ", ":v1", NL>>

\* dataproc.rb of the v1beta2 library, with the services v1 does not have.
Text_dataproc_v1beta2 ==
  Header \o Factory("AutoscalingPolicy") \o Factory("WorkflowTemplate")
    \o <<"version: ", ":v1beta2", NL, " ", "#", " ", "version: ", ":v1beta2", " ",
         "{", "a", "}", NL>>

\* The same with names that only contain WorkflowTemplate.
Text_dataproc_v1beta2_names ==
  Text_dataproc_v1beta2
    \o <<"X", "WorkflowTemplate", ".new", NL, "WorkflowTemplate", "X", ".new", NL,
         "module ", "WorkflowTemplate", "X", NL>>

Text_version_module(name) ==
  Header \o <<"module ", name, NL>> \o DocLine \o Args \o Kwargs

ClientBody(cred, class, name) ==
  <<"require ", cred, NL, NL, " ", "class ", class, NL, " ",
    "attr_reader :service_stub", NL,
    " ", "#", " ", name, ".new", "(version:", ":v1", ")", NL>>
    \o DocLine \o Args
    \o <<"service_path = ", "self.class::SERVICE_ADDRESS", NL,
         "port = ", "self.class::DEFAULT_SERVICE_PORT", NL,
         "Gem.loaded_specs[", "google-cloud-dataproc", "].version.version", NL,
         " ", "#", " ", Url_github_old, NL>>

\* Comment lines with placeholders, as the generator writes them.
Placeholder_plain ==
  <<" ", "#", " ", "projects/", "{", "a", "}", "/regions/", "{", "b", "}", NL>>

Placeholder_span ==
  <<" ", "#", " ", Tick, "{", "a", "}", Tick, " ", "{", "a", "}", "{", "b", "}", " ",
    "#", "{", "a", "}", NL>>

Text_client(cred, class, name, comment) ==
  Header \o ClientBody(cred, class, name) \o comment

Text_cluster_controller ==
  Header
    \o <<"require ", "google/cloud/dataproc/v1/credentials", NL, NL, " ", "class ",
         "ClusterControllerClient", NL, " ", "attr_reader :service_stub", NL, NL, " ",
         "class ", "OperationsClient", Operations_base, NL>>

Text_test(name) ==
  Header
    \o <<name, ".new", "(version:", ":v1", ")", NL, "V1::", name, ".new", "(", ")", NL>>

Text_readme == <<Url_io_old, NL, Url_github_old, NL>>

Text_yardopts == <<"--title=Google Cloud Dataproc API", NL, "README.md", NL>>

Homepage_generated == "'https://github.com/googleapis/googleapis'"

Homepage_edited == "'https://github.com/googleapis/google-cloud-ruby'"

Text_gemspec(version, homepage) ==
  <<"# -*- ruby -*-", NL, NL, "Gem::Specification.new do", NL,
    " ", "gem.version", " ", "=", " ", version, NL,
    " ", "gem.homepage", " ", "=", " ", homepage, NL,
    " ", "gem.files = ", "'README.md'", ", ", "'LICENSE'", NL,
    Gax_dependency, "3", ".", "0", "quote", NL,
    " ", Rubocop_dependency, ", ~> 0.50.0", NL>>

\* version.rb is written by hand.
Text_version_rb == Header \o <<"module ", "Dataproc", NL, "VERSION = 0.2.2", NL>>

Text_version_rb_comment ==
  <<"#", " ", "Copyright 2019", " Google LLC", NL, NL>>
    \o <<"module ", "Dataproc", NL, " ", "#", " ", Url_github_old, " ", "{", "a", "}", NL,
         "VERSION = 0.2.2", NL>>

Files(entries) ==
  [p \in Paths |-> IF \E e \in entries : e[1] = p
                   THEN (CHOOSE e \in entries : e[1] = p)[2]
                   ELSE NoFile]

\* gapic.ruby_library('dataproc', 'v1', ...)
Library_v1(comment) ==
  Files({ <<P_v1_acc, <<"smoke", NL>>>>,
          <<P_dataproc_rb, Text_dataproc_v1>>,
          <<P_v1_rb, Text_version_module("WorkflowTemplate")>>,
          <<P_v1_wt_client,
            Text_client("google/cloud/dataproc/v1/credentials",
                        "WorkflowTemplateServiceClient", "WorkflowTemplate", comment)>>,
          <<P_v1_cc_client, Text_cluster_controller>>,
          <<P_v1_wt_test, Text_test("WorkflowTemplate")>>,
          <<P_readme, Text_readme>>,
          <<P_license, <<"Apache License", NL>>>>,
          <<P_gitignore, <<"Gemfile.lock", NL>>>>,
          <<P_yardopts, Text_yardopts>>,
          <<P_gemspec, Text_gemspec("'0.1.0'", Homepage_generated)>> })

\* gapic.ruby_library('dataproc', 'v1beta2', ...); the autoscaling policy
\* service is in some versions of the API definition only.
Library_v1beta2(dataproc_rb, autoscaling) ==
  Files({ <<P_v1beta2_acc, <<"smoke", NL>>>>,
          <<P_dataproc_rb, dataproc_rb>>,
          <<P_v1beta2_rb, Text_version_module("AutoscalingPolicy")>>,
          <<P_v1beta2_wt_client,
            Text_client("google/cloud/dataproc/v1beta2/credentials",
                        "WorkflowTemplateServiceClient", "WorkflowTemplate",
                        Placeholder_plain)>>,
          <<P_v1beta2_wt_test, Text_test("WorkflowTemplate")>>,
          <<P_readme, <<"v1beta2", NL>>>> }
        \cup IF autoscaling
             THEN { <<P_v1beta2_as_client,
                      Text_client("google/cloud/dataproc/v1beta2/credentials",
                                  "AutoscalingPolicyServiceClient", "AutoscalingPolicy",
                                  Placeholder_span)>>,
                    <<P_v1beta2_as_test, Text_test("AutoscalingPolicy")>> }
             ELSE {})

\* gcp.CommonTemplates().ruby_library()
CommonTemplates == Files({ <<P_authentication, <<"# Authentication", NL>>>> })

\* The working tree before the run: nothing but the hand-written version.rb,
\* or the library as an earlier release left it.
Tree_new(version_rb) == Files({ <<P_version_rb, version_rb>> })

Tree_released ==
  Files({ <<P_version_rb, Text_version_rb_comment>>,
          <<P_gemspec, Text_gemspec("'0.2.2'", Homepage_edited)>>,
          <<P_yardopts, Text_yardopts \o <<"AUTHENTICATION.md", NL, "LICENSE", NL>>>>,
          <<P_readme, <<"0.2.2", NL>>>> })

(***************************************************************************)
(* Copy and Replace on the working tree.                                   *)
(***************************************************************************)
\* ^\s+gem.version\s*=\s*"[\d\.]+"$ and ^\s+gem.homepage\s*=\s*"[^"]+"$
GemField(name, values) ==
  <<Spaces, Lit(name), [neg |-> FALSE, set |-> {" ", NL}, q |-> "*"], Lit("="),
    [neg |-> FALSE, set |-> {" ", NL}, q |-> "*"], One(values)>>

\* The matches of a field expression that start and end a line.
FieldStarts(pat, s) ==
  { i \in MatchStarts(pat, s, 1) :
      /\ i = 1 \/ s[i - 1] = NL
      /\ LET b == MatchAt(pat, s, i)
         IN  b[Len(b)] > Len(s) \/ s[b[Len(b)]] = NL }

\* regex.sub(match.group(0), src, count=1) when the field is in dest.
KeepField(pat, src, dest) ==
  IF FieldStarts(pat, dest) = {} \/ FieldStarts(pat, src) = {}
  THEN src
  ELSE LET d == Min(FieldStarts(pat, dest))
           db == MatchAt(pat, dest, d)
           i == Min(FieldStarts(pat, src))
           sb == MatchAt(pat, src, i)
       IN  SubSeq(src, 1, i - 1) \o SubSeq(dest, d, db[Len(db)] - 1)
             \o SubSeq(src, sb[Len(sb)], Len(src))

\* ruby.merge_gemspec: the generated gemspec with the version and the
\* homepage of the gemspec that is already there.
merge_gemspec(src, dest) ==
  KeepField(GemField("gem.homepage", {Homepage_generated, Homepage_edited}),
            KeepField(GemField("gem.version", QuotedVersions), src, dest),
            dest)

SourceTree(name) ==
  IF name = "v1" THEN v1_library
  ELSE IF name = "v1beta2" THEN v1beta2
  ELSE templates

\* The files a Copy writes: the source, or what lies below it.
CopyPaths(op) ==
  { p \in Paths : SourceTree(op.src)[p] # NoFile /\ HasPrefix(p, op.sub) }

\* s.copy(source): overwrite, or merge with what is there.
CopyInto(op, t) ==
  [p \in Paths |->
     IF p \in CopyPaths(op)
     THEN IF op.merge /\ t[p] # NoFile
          THEN merge_gemspec(SourceTree(op.src)[p], t[p])
          ELSE SourceTree(op.src)[p]
     ELSE t[p]]

\* A Replace on every path (a faulty variant of ReplacePaths).
ReplacePathsAll(op, t) == { p \in Paths : t[p] # NoFile }

\* The files a Replace resolves to: the existing files its globs match.  No
\* two globs of one list of the manifest match the same file.
ReplacePaths(op, t) ==
  { p \in Paths : t[p] # NoFile /\ \E g \in op.files : PathMatch(g, p) }

\* The Replace on one file's text.
ReplaceText(op, s) ==
  IF op.how = "escape_braces" THEN ReplaceEscape(s, 1)
  ELSE IF op.how = "header" THEN HeaderSubn(s)
  ELSE Subn(op, [s |-> s, from |-> 1])

ReplaceIn(op, t) ==
  [p \in Paths |-> IF p \in ReplacePaths(op, t) THEN ReplaceText(op, t[p]) ELSE t[p]]

(***************************************************************************)
(* The run of the manifest: the statements of the script, in order.        *)
(***************************************************************************)
Init ==
  /\ \E comment \in {Placeholder_plain, Placeholder_span} :
       v1_library = Library_v1(comment)
  /\ \E d \in {Text_dataproc_v1beta2, Text_dataproc_v1beta2_names} :
       \E autoscaling \in BOOLEAN : v1beta2 = Library_v1beta2(d, autoscaling)
  /\ templates = CommonTemplates
  /\ tree \in {Tree_new(NoFile), Tree_new(Text_version_rb), Tree_released}
  /\ origin = [p \in Paths |-> "hand"]
  /\ previous = tree
  /\ pc = 1
  /\ outcome = "running"
  /\ run = 1
  /\ applied = <<>>
  /\ targeted = {}
  /\ patched = {}
  /\ line = <<>> /\ content = <<>> /\ rest = <<>> /\ orig = <<>>
  /\ passes = 0 /\ epc = "none"

\* The statement after the one at pc, or the end of the script.
Advance ==
  /\ pc' = pc + 1
  /\ outcome' = IF pc = NOps THEN "success" ELSE "running"
  /\ applied' = Append(applied, pc)

\* s.copy(...)
RunCopy ==
  /\ outcome = "running"
  /\ Manifest[pc].kind = "copy"
  /\ tree' = CopyInto(Manifest[pc], tree)
  /\ origin' = [p \in Paths |->
                  IF p \in CopyPaths(Manifest[pc]) THEN Manifest[pc].src ELSE origin[p]]
  /\ Advance
  /\ UNCHANGED <<run, targeted, patched, previous, genVars, escVars>>

\* s.replace(...)
RunReplace ==
  /\ outcome = "running"
  /\ Manifest[pc].kind = "replace"
  /\ tree' = ReplaceIn(Manifest[pc], tree)
  /\ targeted' = targeted \cup ReplacePaths(Manifest[pc], tree)
  /\ patched' = patched \cup
                  { <<p, pc>> : p \in { q \in Paths : tree'[q] # tree[q] } }
  /\ Advance
  /\ UNCHANGED <<origin, run, previous, genVars, escVars>>

\* An exception that is caught and the script going on with the next
\* statement (a faulty variant of OpRaises).
OpRaisesAndGoesOn ==
  /\ outcome = "running"
  /\ Manifest[pc].kind = "copy"
  /\ pc' = pc + 1
  /\ outcome' = IF pc = NOps THEN "success" ELSE "running"
  /\ UNCHANGED <<tree, origin, run, applied, targeted, patched, previous, genVars, escVars>>

\* A Copy raises (its source is missing from the generated tree, the merge
\* fails): nothing catches the exception and the script ends.
OpRaises ==
  /\ outcome = "running"
  /\ Manifest[pc].kind = "copy"
  /\ outcome' = "failure"
  /\ UNCHANGED <<tree, origin, pc, run, applied, targeted, patched, previous, genVars, escVars>>

\* The script is run again, with the same generated trees, over the tree
\* the last run left.
Rerun ==
  /\ outcome = "success"
  /\ run < MaxRuns
  /\ previous' = tree
  /\ run' = run + 1
  /\ pc' = 1
  /\ outcome' = "running"
  /\ applied' = <<>>
  /\ targeted' = {}
  /\ patched' = {}
  /\ UNCHANGED <<tree, origin, genVars, escVars>>

Next == RunCopy \/ RunReplace \/ OpRaises \/ Rerun

Spec == Init /\ [][Next]_vars

(***************************************************************************)
(* Properties of escape_braces.                                            *)
(***************************************************************************)
\* The placeholders {ident} of a text: the indices of their opening braces.
Placeholders(s) == { i \in 1..Len(s) : BraceEnd(s, i) > 0 }

TicksBefore(s, i) == Cardinality({ j \in 1..(i - 1) : s[j] = Tick })

\* Outside an inline code span, and not after a backtick, #, $ or backslash.
Eligible(s) ==
  { i \in Placeholders(s) :
      /\ i > 1
      /\ TicksBefore(s, i) % 2 = 0
      /\ s[i - 1] \notin {Tick, "#", "$", BS} }

\* Inside a code span: an odd number of backticks before, one more after.
InSpan(s, i) ==
  /\ TicksBefore(s, i) % 2 = 1
  /\ \E j \in i..Len(s) : s[j] = Tick

\* Where index i of the handed line is in the returned line.
Shifted(s, i) == i + 2 * Cardinality({ j \in Eligible(s) : j <= i })

RECURSIVE InsertAll(_, _)
InsertAll(s, S) ==
  IF S = {} THEN s
  ELSE InsertAll(InsertAt(s, Max(S), <<BS, BS>>), S \ {Max(S)})

\* C1: in the line escape_braces returns, every placeholder that was outside
\* a code span and not after a backtick, #, $ or backslash has the escape in
\* front of its opening brace, several or adjacent placeholders included.
C1_EscapesEveryEligible ==
  epc = "returned" =>
    \A i \in Eligible(orig) :
      LET p == Shifted(orig, i)
      IN  /\ p <= Len(content)
          /\ content[p] = "{"
          /\ BraceEnd(content, p) = BraceEnd(orig, i) + (p - i)
          /\ content[p - 1] = BS
          /\ content[p - 2] = BS

\* C1 witness: a line with two adjacent eligible placeholders was returned.
C1_Witness ==
  /\ epc = "returned"
  /\ \E i \in Eligible(orig) : BraceEnd(orig, i) + 1 \in Eligible(orig)

\* C2: placeholders in a code span or after a backtick, #, $ or backslash stay
\* as they were, nothing but the escapes is added, and the Replace applied to
\* its own output changes nothing.
C2_OnlyEscapesAdded ==
  epc = "returned" =>
    /\ content = InsertAll(orig, Eligible(orig))
    /\ \A i \in Placeholders(orig) \ Eligible(orig) :
         /\ content[Shifted(orig, i)] = "{"
         /\ content[Shifted(orig, i) - 1] = orig[i - 1]
    /\ escape_braces(content) = content
    /\ ReplaceEscape(content \o rest, 1) = content \o rest

\* C2 witness: the returned line had a placeholder inside a code span and
\* another one that was escaped.
C2_Witness ==
  /\ epc = "returned"
  /\ content # orig
  /\ \E i \in Placeholders(orig) : InSpan(orig, i)
  /\ \E i \in Placeholders(orig) : i > 1 /\ orig[i - 1] \in {"#", "$", BS}

\* C9: every pass of the loop rewrites one eligible placeholder, which is not
\* eligible afterwards, and the loop returns on the first pass that rewrites
\* nothing: at most one pass more than there were eligible placeholders.
C9_PassesBounded ==
  /\ epc = "loop" =>
       passes + Cardinality(Eligible(content)) = Cardinality(Eligible(orig))
  /\ epc = "returned" =>
       /\ passes <= Cardinality(Eligible(orig)) + 1
       /\ Eligible(content) = {}

\* C9 witness: the loop returned after three passes or more.
C9_Witness == epc = "returned" /\ passes >= 3

(***************************************************************************)
(* Properties of the run of the manifest.                                  *)
(***************************************************************************)
\* A step of the script that applies the operation at pc.
Applies == outcome = "running" /\ outcome' # "failure" /\ pc' = pc + 1

Has(s, atoms) == Occurs(Lits(atoms), s)

Count(s, a) == Cardinality({ i \in 1..Len(s) : s[i] = a })

\* The atoms Ruby constant names are made of.
IsName(a) == a \in {"WorkflowTemplate", "AutoscalingPolicy", "Service", "X"}

RECURSIVE NameRun(_, _)
NameRun(s, i) == IF i <= Len(s) /\ IsName(s[i]) THEN NameRun(s, i + 1) ELSE i

\* Where the constant names of a text start.
NameStarts(s) == { i \in 1..Len(s) : IsName(s[i]) /\ (i = 1 \/ ~IsName(s[i - 1])) }

NameAt(s, i) == SubSeq(s, i, NameRun(s, i) - 1)

\* The names that contain the module's name and are neither it nor its new
\* name, in the order of the text.
OtherNames(s, module) ==
  LET st == { i \in NameStarts(s) :
                /\ \E k \in 1..Len(NameAt(s, i)) : NameAt(s, i)[k] = module
                /\ NameAt(s, i) # <<module>>
                /\ NameAt(s, i) # <<module, "Service">> }
  IN  [k \in 1..Cardinality(st) |->
         NameAt(s, CHOOSE i \in st : Cardinality({ j \in st : j < i }) = k - 1)]

\* A call of the module's constructor: module.new, the name being the module's.
CallsModule(s, module) ==
  \E i \in 1..(Len(s) - 1) :
    /\ s[i] = module /\ s[i + 1] = ".new"
    /\ i = 1 \/ ~IsName(s[i - 1])

RenameOps(module) ==
  IF module = "WorkflowTemplate"
  THEN { IndexOf(Op_module_WorkflowTemplate), IndexOf(Op_new_WorkflowTemplate),
         IndexOf(Op_client_WorkflowTemplate) }
  ELSE { IndexOf(Op_module_AutoscalingPolicy), IndexOf(Op_new_AutoscalingPolicy),
         IndexOf(Op_client_AutoscalingPolicy) }

RenameDone(module) ==
  IF module = "WorkflowTemplate" THEN IndexOf(Op_client_WorkflowTemplate)
  ELSE IndexOf(Op_client_AutoscalingPolicy)

RenameModule(module) ==
  IF module = "WorkflowTemplate" THEN Op_module_WorkflowTemplate
  ELSE Op_module_AutoscalingPolicy

\* C3 witness: the call in dataproc.rb of a name that ends in
\* WorkflowTemplate has been rewritten.
C3_Witness ==
  /\ outcome = "success"
  /\ Has(v1beta2[P_dataproc_rb], <<"X", "WorkflowTemplate", ".new">>)
  /\ Has(tree[P_dataproc_rb], <<"X", "WorkflowTemplate", "Service", ".new">>)

\* C3: once the rename operations of a module have run, no file the
\* declaration rename targets holds the old declaration, none holds the new
\* declaration together with a call of the old name, and the names that only
\* contain the module's name (a longer name, or a name that ends in it) are
\* what they were.
C3_RenameConsistent ==
  [][\A module \in {"WorkflowTemplate", "AutoscalingPolicy"} :
       (Applies /\ pc \in RenameOps(module)) =>
         /\ \A p \in Paths : tree[p] # NoFile =>
              OtherNames(tree'[p], module) = OtherNames(tree[p], module)
         /\ pc = RenameDone(module) =>
              \A p \in ReplacePaths(RenameModule(module), tree) :
                /\ ~Has(tree'[p], <<"module ", module, NL>>)
                /\ Has(tree'[p], <<"module ", module, "Service", NL>>) =>
                     ~CallsModule(tree'[p], module)]_vars

\* C4: the manifest run again over the tree the run before it left, with the
\* same generated trees, leaves the same tree.
C4_RerunIdentical == (run > 1 /\ outcome = "success") => tree = previous

\* C4 witness: a second run has ended over a tree that had the patched
\* .yardopts and the hand-written version.rb.
C4_Witness ==
  /\ run = 2 /\ outcome = "success"
  /\ Has(previous[P_yardopts], <<"AUTHENTICATION.md">>)
  /\ previous[P_version_rb] # NoFile

LiteralOps == { k \in 1..NOps : Manifest[k].kind = "replace" /\ Manifest[k].literal }

\* The literal Replaces whose replacement text holds the match.
KeepsMatch(op) == Occurs(op.match, op.repl)

\* C5 as stated: after a Replace with a literal match has run on a file, the
\* match is not in the file and the same Replace would not change it.
C5_LiteralMatchGone ==
  [][(Applies /\ pc \in LiteralOps) =>
       \A p \in ReplacePaths(Manifest[pc], tree) :
         /\ ~Occurs(Manifest[pc].match, tree'[p])
         /\ ReplaceText(Manifest[pc], tree'[p]) = tree'[p]]_vars

\* C5 as amended: that is so for every literal Replace but the two whose
\* replacement holds the match, the one on .yardopts and the one that puts the
\* require line in the gemspec; after those the match is still in the file and
\* the same Replace would change it again.
C5_LiteralMatchGoneUnlessKept ==
  /\ { k \in LiteralOps : KeepsMatch(Manifest[k]) }
       = { IndexOf(Op_yardopts), IndexOf(Op_gemspec_require) }
  /\ [][(Applies /\ pc \in LiteralOps) =>
          \A p \in ReplacePaths(Manifest[pc], tree) :
            IF KeepsMatch(Manifest[pc])
            THEN tree'[p] # tree[p] =>
                   /\ Occurs(Manifest[pc].match, tree'[p])
                   /\ ReplaceText(Manifest[pc], tree'[p]) # tree'[p]
            ELSE /\ ~Occurs(Manifest[pc].match, tree'[p])
                 /\ ReplaceText(Manifest[pc], tree'[p]) = tree'[p]]_vars

\* C5 witness: the literal Replaces have run, the one on dataproc.rb and the
\* one on .yardopts among them.
C5_Witness ==
  /\ outcome = "running" /\ run = 1
  /\ <<P_dataproc_rb, IndexOf(Op_default_version)>> \in patched
  /\ <<P_yardopts, IndexOf(Op_yardopts)>> \in patched
  /\ <<P_gemspec, IndexOf(Op_gemspec_require)>> \in patched

\* C6: a Replace changes no file that its paths and globs do not match, one
\* that holds the matching text included; when they match no file the tree is
\* as it was; and the script goes on with the next operation.
C6_ReplaceChangesOnlyItsFiles ==
  [][(outcome = "running" /\ Manifest[pc].kind = "replace") =>
       /\ outcome' # "failure"
       /\ pc' = pc + 1
       /\ \A p \in Paths :
            (\A g \in Manifest[pc].files : ~PathMatch(g, p)) => tree'[p] = tree[p]
       /\ (\A p \in Paths : tree[p] # NoFile =>
             \A g \in Manifest[pc].files : ~PathMatch(g, p)) => tree' = tree
       /\ pc = IndexOf(Op_new_WorkflowTemplate) =>
            \A p \in Paths \ {P_dataproc_rb} : tree'[p] = tree[p]]_vars

\* C6 witness: the Replace scoped to dataproc.rb has patched it while a test
\* file holds the same text, and the Replace on the autoscaling policy client
\* has run on a tree that has no such file.
C6_Witness ==
  /\ outcome = "running"
  /\ pc = IndexOf(Op_client_AutoscalingPolicy) + 1
  /\ ReplacePaths(Op_client_AutoscalingPolicy, tree) = {}
  /\ <<P_dataproc_rb, IndexOf(Op_new_WorkflowTemplate)>> \in patched
  /\ Has(tree[P_v1_wt_test], <<"WorkflowTemplate", ".new">>)

\* C7: after an operation has failed nothing more happens, the failing
\* operation has changed nothing, the operations before the one the script is
\* at have all been applied, in the order of the manifest, and the run ends
\* in success only when every operation has been.
C7_FailureIsFatal ==
  [][/\ outcome = "failure" => UNCHANGED runVars
     /\ (outcome = "running" /\ outcome' = "failure") =>
          UNCHANGED <<tree, applied, pc>>
     /\ applied' = [i \in 1..(pc' - 1) |-> i]
     /\ outcome' = "success" => applied' = [i \in 1..NOps |-> i]]_vars

\* C7 witness: the merging copy of the gemspec or a later copy has failed.
C7_Witness == outcome = "failure" /\ Len(applied) >= 7

\* C8: once the default-version Replace has run, and when the run has ended,
\* dataproc.rb is the v1beta2 library's file and :v1beta2 is nowhere in it:
\* every occurrence has become :v1.
C8_DefaultVersionIsV1 ==
  (outcome = "success" \/ (outcome = "running" /\ pc > IndexOf(Op_default_version))) =>
    /\ origin[P_dataproc_rb] = "v1beta2"
    /\ ~Has(tree[P_dataproc_rb], <<":v1beta2">>)
    /\ Count(tree[P_dataproc_rb], ":v1")
         = Count(v1beta2[P_dataproc_rb], ":v1beta2") + Count(v1beta2[P_dataproc_rb], ":v1")

\* C8 witness: the run has ended; the copy of the v1 library's lib directory
\* had written another dataproc.rb, and the v1beta2 one had :v1beta2 in it.
C8_Witness ==
  /\ outcome = "success"
  /\ v1_library[P_dataproc_rb] # v1beta2[P_dataproc_rb]
  /\ Has(v1beta2[P_dataproc_rb], <<":v1beta2">>)
  /\ Has(tree[P_dataproc_rb], <<":v1">>)

\* What a Replace puts into a file is in the text.
PatchPresent(op, s) ==
  IF op.how = "escape_braces" THEN Has(s, <<BS, BS, "{">>)
  ELSE IF op.how = "header" THEN Has(s, <<NL, NL, NL>>)
  ELSE \A i \in 1..Len(op.repl) :
         op.repl[i] \in BackRefs \/ \E j \in 1..Len(s) : s[j] = op.repl[i]

\* C10: the operations are applied one after the other in the order of the
\* manifest, every Copy that writes a file a Replace targets comes before that
\* Replace, no Copy writes a file that a Replace of the run has already been
\* applied to, and when the run ends what each Replace put into a file is
\* still in it.
C10_OrderAndPatchesKept ==
  [][Applies =>
       /\ applied' = Append(applied, pc)
       /\ Manifest[pc].kind = "copy" => CopyPaths(Manifest[pc]) \cap targeted = {}
       /\ Manifest[pc].kind = "replace" =>
            \A p \in Paths : (\E g \in Manifest[pc].files : PathMatch(g, p)) =>
              \A j \in 1..NOps :
                (Manifest[j].kind = "copy" /\ p \in CopyPaths(Manifest[j])) => j < pc
       /\ outcome' = "success" =>
            \A e \in patched' : PatchPresent(Manifest[e[2]], tree'[e[1]])]_vars

\* C10 witness: the run has ended; the first Replace had patched dataproc.rb
\* before the templates were copied.
C10_Witness ==
  /\ outcome = "success"
  /\ <<P_dataproc_rb, IndexOf(Op_default_version)>> \in patched
  /\ origin[P_authentication] = "templates"
  /\ Cardinality(patched) >= 20

====
